---------------------------- MODULE Spec2Model ----------------------------
(***************************************************************************)
(* PortForwardingGUI: the tunnel entity (src/src/SSHTunnel.py), the        *)
(* encrypted session store (save_tunnels / load_tunnels over               *)
(* src/src/encryption.py) and the tunnel form (src/forms/tunnel_ui.py).    *)
(*                                                                         *)
(* Python values are tagged records [t, s, n] (t is "str", "int" or        *)
(* "none"), so that a field may hold whatever the caller or a session file *)
(* put there: the constructor checks nothing.  Objects live in heaps, a    *)
(* sequence per class, and an object's identity is its index.              *)
(***************************************************************************)
EXTENDS Integers, Sequences, FiniteSets, TLC

\* ------------------------------------------------------------------ bounds
MaxTunnels == 2     \* SSHTunnel objects ever constructed
MaxHandles == 2     \* SSHTunnelForwarder objects ever constructed
MaxDraws == 4       \* os.urandom calls ever made

\* --------------------------------------------------------- Python values
None   == [t |-> "none", s |-> "", n |-> 0]
PyStr(x) == [t |-> "str", s |-> x, n |-> 0]
PyInt(x) == [t |-> "int", s |-> "", n |-> x]

\* Python truthiness of a value, as `not server_ip` reads it.
Falsy(v) == \/ v.t = "none"
            \/ (v.t = "str" /\ v.s = "")
            \/ (v.t = "int" /\ v.n = 0)

\* A dict is the sequence of its items [k, v] in insertion order.
Item(k, v)    == [k |-> k, v |-> v]
DictKeys(d)   == {d[i].k : i \in 1..Len(d)}
DictGet(d, k) == d[CHOOSE i \in 1..Len(d) : d[i].k = k /\ \A j \in (i+1)..Len(d) : d[j].k # k].v

\* ------------------------------------------------------ SSHTunnel.__init__
NoHandle == 0       \* self._tunnel = None

FieldNames == <<"name", "local_ip", "local_port", "host_ip", "host_port",
                "server_port", "user", "password", "server_ip">>
ParamNames    == {FieldNames[i] : i \in 1..Len(FieldNames)}
RequiredNames == {"local_port", "host_ip", "host_port", "user", "password"}

\* The default of an optional parameter.
ParamDefault(k) == CASE k = "name"        -> PyStr("")
                     [] k = "local_ip"    -> PyStr("127.0.0.1")
                     [] k = "server_ip"   -> None
                     [] k = "server_port" -> PyInt(22)
                     [] OTHER             -> None

Arg(kw, k) == IF k \in DictKeys(kw) THEN DictGet(kw, k) ELSE ParamDefault(k)

\* Binding the keyword arguments fails on a missing required parameter or an
\* unexpected keyword (TypeError); nothing else is checked.
CallRaises(kw) == \/ \E k \in RequiredNames : k \notin DictKeys(kw)
                  \/ \E k \in DictKeys(kw) : k \notin ParamNames

\* Mutant: the defaulting rule dropped, server_ip stored as given.
ServerIpRaw(server_ip, host_ip) == server_ip

\* self.server_ip = host_ip if not server_ip else server_ip
ServerIpDefault(server_ip, host_ip) == IF Falsy(server_ip) THEN host_ip ELSE server_ip

SSHTunnel(kw) ==
    [name        |-> Arg(kw, "name"),
     local_ip    |-> Arg(kw, "local_ip"),
     local_port  |-> Arg(kw, "local_port"),
     host_ip     |-> Arg(kw, "host_ip"),
     host_port   |-> Arg(kw, "host_port"),
     server_port |-> Arg(kw, "server_port"),
     user        |-> Arg(kw, "user"),
     password    |-> Arg(kw, "password"),
     server_ip   |-> ServerIpDefault(Arg(kw, "server_ip"), Arg(kw, "host_ip")),
     _tunnel     |-> NoHandle]

\* Mutant: server_ip left out of the saved record.
to_dict_without_server_ip(self) ==
    <<Item("name", self.name), Item("local_ip", self.local_ip),
      Item("local_port", self.local_port), Item("host_ip", self.host_ip),
      Item("host_port", self.host_port), Item("server_port", self.server_port),
      Item("user", self.user), Item("password", self.password)>>

to_dict(self) ==
    <<Item("name", self.name), Item("local_ip", self.local_ip),
      Item("local_port", self.local_port), Item("host_ip", self.host_ip),
      Item("host_port", self.host_port), Item("server_port", self.server_port),
      Item("user", self.user), Item("password", self.password),
      Item("server_ip", self.server_ip)>>

\* The nine persisted fields of a tunnel object (its TunnelSpec).
Fields(self) ==
    [name |-> self.name, local_ip |-> self.local_ip, local_port |-> self.local_port,
     host_ip |-> self.host_ip, host_port |-> self.host_port,
     server_port |-> self.server_port, user |-> self.user,
     password |-> self.password, server_ip |-> self.server_ip]

\* ------------------------------------------------------------------ json
\* A JSON text is the sequence of its tokens; a token [t, k, v] is an array or
\* object bracket, or a member "k": v of an object.  All other bytes of the
\* model share this shape.
Byte(t, k, v) == [t |-> t, k |-> k, v |-> v]
Bracket(t)    == Byte(t, "", None)

\* json's type conversion: str <-> string, int <-> number, None <-> null.
JsonOf(v) == [t |-> CASE v.t = "str" -> "string" [] v.t = "int" -> "number" [] OTHER -> "null",
              s |-> v.s, n |-> v.n]
PyOf(j)   == [t |-> CASE j.t = "string" -> "str" [] j.t = "number" -> "int" [] OTHER -> "none",
              s |-> j.s, n |-> j.n]

DumpObject(d) == <<Bracket("{")>> \o [i \in 1..Len(d) |-> Byte("member", d[i].k, JsonOf(d[i].v))]
                                  \o <<Bracket("}")>>

RECURSIVE DumpObjects(_, _)
DumpObjects(data, i) ==
    IF i > Len(data) THEN <<>> ELSE DumpObject(data[i]) \o DumpObjects(data, i + 1)

\* json.dumps of a list of dicts.
json_dumps(data) == <<Bracket("[")>> \o DumpObjects(data, 1) \o <<Bracket("]")>>

\* The members of an object, read from text[i] on to its closing brace.
RECURSIVE ParseMembers(_, _, _)
ParseMembers(text, i, d) ==
    IF i > Len(text) THEN [ok |-> FALSE, val |-> d, nxt |-> i]
    ELSE IF text[i].t = "}" THEN [ok |-> TRUE, val |-> d, nxt |-> i + 1]
    ELSE IF text[i].t = "member"
         THEN ParseMembers(text, i + 1, Append(d, Item(text[i].k, PyOf(text[i].v))))
    ELSE [ok |-> FALSE, val |-> d, nxt |-> i]

\* The objects of an array, read from text[i] on to its closing bracket, which
\* must end the text.
RECURSIVE ParseObjects(_, _, _)
ParseObjects(text, i, acc) ==
    IF i > Len(text) THEN [ok |-> FALSE, val |-> acc]
    ELSE IF text[i].t = "]" THEN [ok |-> i = Len(text), val |-> acc]
    ELSE IF text[i].t = "{"
         THEN LET m == ParseMembers(text, i + 1, <<>>)
              IN  IF m.ok THEN ParseObjects(text, m.nxt, Append(acc, m.val))
                  ELSE [ok |-> FALSE, val |-> acc]
    ELSE [ok |-> FALSE, val |-> acc]

\* json.loads: [ok, val]; not ok is a JSONDecodeError.
json_loads(text) ==
    IF Len(text) = 0 \/ text[1].t # "[" THEN [ok |-> FALSE, val |-> <<>>]
    ELSE ParseObjects(text, 2, <<>>)

\* ------------------------------------------------------------ encryption
SaltLen   == 16     \* os.urandom(16), encrypted_data[:16]
IvLen     == 16     \* os.urandom(16), encrypted_data[16:32]
BlockSize == 16     \* algorithms.AES.block_size, in bytes

\* s[a:b] of Python.
Slice(s, a, b) == SubSeq(s, a + 1, IF b < Len(s) THEN b ELSE Len(s))

\* os.urandom(n): n bytes of the draw r.
urandom(n, r) == [i \in 1..n |-> Byte("rnd", "", PyInt(r))]

\* The bytes of one os.urandom call are modelled alike, so a byte string cut
\* from such bytes is known by its length and its first byte.
Digest(bytes) == [len |-> Len(bytes), r |-> IF Len(bytes) > 0 THEN bytes[1].v.n ELSE 0]

\* PBKDF2-HMAC-SHA256 is a function of (password, salt) taken to be injective.
derive_key(password, salt) == [password |-> password, salt |-> Digest(salt)]

\* PKCS7 padding: 1..BlockSize bytes, each holding their number.
PadByte(n)   == Byte("pad", "", PyInt(n))
PadLen(m)    == BlockSize - (Len(m) % BlockSize)
pkcs7_pad(m) == m \o [i \in 1..PadLen(m) |-> PadByte(PadLen(m))]

\* unpadder.update(m) + unpadder.finalize(): [ok, val]; not ok is a ValueError.
pkcs7_unpad(m) ==
    LET n == IF Len(m) > 0 /\ m[Len(m)].t = "pad" THEN m[Len(m)].v.n ELSE 0
    IN  IF /\ Len(m) > 0
           /\ Len(m) % BlockSize = 0
           /\ n \in 1..BlockSize
           /\ n <= Len(m)
           /\ \A i \in (Len(m) - n + 1)..Len(m) : m[i] = PadByte(n)
        THEN [ok |-> TRUE, val |-> SubSeq(m, 1, Len(m) - n)]
        ELSE [ok |-> FALSE, val |-> <<>>]

\* AES-CBC, symbolically: a ciphertext byte remembers the key and the IV it
\* was made under and the plaintext byte it hides.
aes_cbc_encrypt(key, iv, m) ==
    [i \in 1..Len(m) |-> [t |-> "ct", key |-> key, iv |-> Digest(iv), p |-> m[i]]]

\* What decryption under another key or IV gives, by the kind g of the
\* outcome: "badpad" (no valid padding), "baddecode" (a valid padding by
\* chance, bytes that are no UTF-8), "badjson" (valid padding and UTF-8, no
\* JSON).
GarbageKinds == {"badpad", "baddecode", "badjson"}
Garbage(g, i, len) ==
    CASE g = "badpad"    -> Byte("junk", "", None)
      [] g = "baddecode" -> IF i = len THEN PadByte(1) ELSE Byte("junk", "", None)
      [] OTHER           -> IF i = len THEN PadByte(1) ELSE Byte("text", "", None)

\* Mutant: decryption that gives the plaintext under any key and IV.
aes_cbc_decrypt_any_key(key, iv, c, g) ==
    [i \in 1..Len(c) |-> IF c[i].t = "ct" THEN c[i].p ELSE Garbage(g, i, Len(c))]

aes_cbc_decrypt(key, iv, c, g) ==
    [i \in 1..Len(c) |->
        IF c[i].t = "ct" /\ c[i].key = key /\ c[i].iv = Digest(iv) THEN c[i].p
        ELSE Garbage(g, i, Len(c))]

\* base64: the text that stands for a byte sequence, and back.
b64encode(bytes) == [b64 |-> bytes]
b64decode(text)  == text.b64

\* Mutant: a salt and an IV that are the same on every call.
encrypt_fixed_salt_iv(message, password, r_salt, r_iv) ==
    LET salt == urandom(SaltLen, 0)
        key  == derive_key(password, salt)
        iv   == urandom(IvLen, 0)
    IN  b64encode(salt \o iv \o aes_cbc_encrypt(key, iv, pkcs7_pad(message)))

\* encrypt(message, password) with the draws of its two os.urandom calls.
encrypt(message, password, r_salt, r_iv) ==
    LET salt == urandom(SaltLen, r_salt)
        key  == derive_key(password, salt)
        iv   == urandom(IvLen, r_iv)
    IN  b64encode(salt \o iv \o aes_cbc_encrypt(key, iv, pkcs7_pad(message)))

\* decrypt(encrypted_message, password): [err, val], err "" on success.
decrypt(encrypted_message, password, g) ==
    LET encrypted_data == b64decode(encrypted_message)
        salt       == Slice(encrypted_data, 0, SaltLen)
        iv         == Slice(encrypted_data, SaltLen, SaltLen + IvLen)
        ciphertext == Slice(encrypted_data, SaltLen + IvLen, Len(encrypted_data))
        key        == derive_key(password, salt)
        padded     == aes_cbc_decrypt(key, iv, ciphertext, g)
        message    == pkcs7_unpad(padded)
    IN  IF Len(iv) # IvLen \/ Len(ciphertext) % BlockSize # 0 \/ ~message.ok
        THEN [err |-> "ValueError", val |-> <<>>]
        ELSE IF \E i \in 1..Len(message.val) : message.val[i].t = "junk"
        THEN [err |-> "UnicodeDecodeError", val |-> <<>>]
        ELSE [err |-> "", val |-> message.val]

\* ---------------------------------------------------------- session store
\* save_tunnels up to path.write_text: the text written for the list of
\* tunnel objects.
save_text(tunnel_list, password, r_salt, r_iv) ==
    LET data == [i \in 1..Len(tunnel_list) |-> to_dict(tunnel_list[i])]
    IN  encrypt(json_dumps(data), password, r_salt, r_iv)

\* Mutant: a record the constructor refuses is skipped, the others loaded.
load_text_partial(text, password, g) ==
    LET dec  == decrypt(text, password, g)
        data == json_loads(dec.val)
        good == SelectSeq(data.val, LAMBDA d : ~CallRaises(d))
    IN  IF dec.err # "" THEN [err |-> dec.err, val |-> <<>>]
        ELSE IF ~data.ok THEN [err |-> "JSONDecodeError", val |-> <<>>]
        ELSE [err |-> "", val |-> [i \in 1..Len(good) |-> SSHTunnel(good[i])]]

\* load_tunnels from the text read: [err, val], err "" on success and val the
\* list of tunnels built; one record the constructor refuses fails the call.
load_text(text, password, g) ==
    LET dec  == decrypt(text, password, g)
        data == json_loads(dec.val)
    IN  IF dec.err # "" THEN [err |-> dec.err, val |-> <<>>]
        ELSE IF ~data.ok THEN [err |-> "JSONDecodeError", val |-> <<>>]
        ELSE IF \E i \in 1..Len(data.val) : CallRaises(data.val[i])
        THEN [err |-> "TypeError", val |-> <<>>]
        ELSE [err |-> "", val |-> [i \in 1..Len(data.val) |-> SSHTunnel(data.val[i])]]

\* ------------------------------------------------------------------ state
VARIABLES
    tunnels,        \* heap of SSHTunnel objects, in order of construction
    forwarders,     \* heap of SSHTunnelForwarder objects (the handles)
    files,          \* the file system: path -> [exists, text]
    saved,          \* history: path -> what the save_tunnels that wrote it was given
    drawn,          \* how many os.urandom calls have been made
    frames,         \* the start() and the stop() in progress on threads
    last,           \* the last call: what was called, on what, and how it ended
    _tunnels_items, \* MainUI: the list of TunnelItem(tunnel, check_box)
    tree_rows,      \* MainUI: the rows of the tree model, as displayed
    running         \* MainUI: the application has not quit

shellVars == <<_tunnels_items, tree_rows, running>>
vars == <<tunnels, forwarders, files, saved, drawn, frames, last, _tunnels_items, tree_rows, running>>

\* An exception: its type, the underlying cause it reports and the tunnel
\* name it carries (None: none).
Error(type, cause, name) == [type |-> type, cause |-> cause, name |-> name]
NoError == Error("", "", None)

\* was_active and old_handle are the callee's is_active() and _tunnel as the
\* call began; calls are the calls made on the SSH library, in order, one that
\* raised marked ":raised"; returned is the list a load returned; arg holds
\* the call's arguments.
Obs(op, self, raised, was_active, old_handle, calls, returned, arg) ==
    [op |-> op, self |-> self, raised |-> raised, was_active |-> was_active,
     old_handle |-> old_handle, calls |-> calls, returned |-> returned, arg |-> arg]

\* The arguments of a call: the path and password of a save or load, the
\* keyword arguments of a constructor call.
CallArg(path, password, kw) == [path |-> path, password |-> password, kw |-> kw]
FileArg(path, password) == CallArg(path, password, <<>>)
NoArg == CallArg("", "", <<>>)

\* The frame of a call in progress: where it stands (pc: the line of its next
\* step, "idle" when no call is in progress), the tunnel it is on, and the
\* exception that ended the last call.
Frame(pc, self, raised) == [pc |-> pc, self |-> self, raised |-> raised]
Idle == Frame("idle", 0, "")

Paths     == {"session.json.enc"}
Passwords == {"hunter2", "wrong"}
NoFile    == [exists |-> FALSE, text |-> b64encode(<<>>)]

\* What wrote the file: nothing or something else (records: how many records
\* it holds), or a save_tunnels: the fields of the tunnels it was given,
\* whether each was Active, the password, and whether the save that wrote the
\* file before was given the same list and password (again).
NotSaved(records) ==
    [by_save |-> FALSE, records |-> records, specs |-> <<>>, active |-> <<>>, password |-> "",
     again |-> FALSE]

Init ==
    /\ tunnels = <<>>
    /\ forwarders = <<>>
    /\ files = [p \in Paths |-> NoFile]
    /\ saved = [p \in Paths |-> NotSaved(0)]
    /\ drawn = 0
    /\ frames = [start |-> Idle, stop |-> Idle, overlapped |-> FALSE]
    /\ last = Obs("init", 0, NoError, FALSE, NoHandle, <<>>, <<>>, NoArg)
    /\ _tunnels_items = <<>>
    /\ tree_rows = <<>>
    /\ running = TRUE

\* ------------------------------------------------- SSHTunnel start / stop
\* SSHTunnelForwarder(...): the handle as start() builds it, not yet started.
NewForwarder(self) ==
    [ssh_address_or_host |-> <<self.server_ip, self.server_port>>,
     remote_bind_address |-> <<self.host_ip, self.host_port>>,
     local_bind_address  |-> <<self.local_ip, self.local_port>>,
     ssh_username        |-> self.user,
     ssh_password        |-> self.password,
     is_active           |-> FALSE]

is_active(ts, fw, i) ==
    IF ts[i]._tunnel = NoHandle THEN FALSE ELSE fw[ts[i]._tunnel].is_active

\* The outcomes of the SSH library on a start(): the constructor raises; the
\* handle's start() returns, connected; or it raises, the transport left
\* down or up.  The reasons a connect fails:
StartOutcomes == {"ok", "ctor_raises", "start_raises_down", "start_raises_up"}
ConnectCauses == {"authentication failed", "host unreachable", "local port in use"}

\* The outcomes of the handle's stop(force=True): it returns, closed; or it
\* raises, the transport left down or up.
StopOutcomes == {"ok", "stop_raises_down", "stop_raises_up"}

\* What the SSH library raises is its own exception: the library was never
\* given the tunnel's name.
LibraryError(cause) == Error("BaseSSHTunnelForwarderError", cause, None)

\* Mutant: start() invokes the handle's start whether or not it is active.
start_restarts(ts, fw, i, out, cause) ==
    LET create == ts[i]._tunnel = NoHandle
        h      == IF create THEN Len(fw) + 1 ELSE ts[i]._tunnel
        fw1    == IF create THEN Append(fw, NewForwarder(ts[i])) ELSE fw
    IN  [tunnels |-> [ts EXCEPT ![i]._tunnel = h],
         forwarders |-> [fw1 EXCEPT ![h].is_active = TRUE],
         raised |-> NoError,
         calls |-> (IF create THEN <<"SSHTunnelForwarder">> ELSE <<>>) \o <<"start">>]

\* Mutant: start() builds a new handle whenever the tunnel is not active.
start_rebuilds(ts, fw, i, out, cause) ==
    LET create  == ~is_active(ts, fw, i)
        h       == IF create THEN Len(fw) + 1 ELSE ts[i]._tunnel
        fw1     == IF create THEN Append(fw, NewForwarder(ts[i])) ELSE fw
        ts1     == [ts EXCEPT ![i]._tunnel = h]
        created == IF create THEN <<"SSHTunnelForwarder">> ELSE <<>>
        fails   == out \in {"start_raises_down", "start_raises_up"}
    IN  IF create /\ out = "ctor_raises"
        THEN [tunnels |-> ts, forwarders |-> fw,
              raised |-> Error("ValueError", cause, None),
              calls |-> <<"SSHTunnelForwarder:raised">>]
        ELSE IF fw1[h].is_active
        THEN [tunnels |-> ts1, forwarders |-> fw1, raised |-> NoError, calls |-> created]
        ELSE [tunnels |-> ts1,
              forwarders |-> [fw1 EXCEPT ![h].is_active = out \in {"ok", "start_raises_up"}],
              raised |-> IF fails THEN LibraryError(cause) ELSE NoError,
              calls |-> created \o <<IF fails THEN "start:raised" ELSE "start">>]

\* self.start() on tunnels[i] in heaps (ts, fw): the heaps afterwards, the
\* exception that left the call and the library calls made.
start(ts, fw, i, out, cause) ==
    LET create  == ts[i]._tunnel = NoHandle
        h       == IF create THEN Len(fw) + 1 ELSE ts[i]._tunnel
        fw1     == IF create THEN Append(fw, NewForwarder(ts[i])) ELSE fw
        ts1     == [ts EXCEPT ![i]._tunnel = h]
        created == IF create THEN <<"SSHTunnelForwarder">> ELSE <<>>
        fails   == out \in {"start_raises_down", "start_raises_up"}
    IN  IF create /\ out = "ctor_raises"
        THEN [tunnels |-> ts, forwarders |-> fw,
              raised |-> Error("ValueError", cause, None),
              calls |-> <<"SSHTunnelForwarder:raised">>]
        ELSE IF fw1[h].is_active
        THEN [tunnels |-> ts1, forwarders |-> fw1, raised |-> NoError, calls |-> created]
        ELSE [tunnels |-> ts1,
              forwarders |-> [fw1 EXCEPT ![h].is_active = out \in {"ok", "start_raises_up"}],
              raised |-> IF fails THEN LibraryError(cause) ELSE NoError,
              calls |-> created \o <<IF fails THEN "start:raised" ELSE "start">>]

\* Mutant: stop() clears the handle field also when the teardown raised.
stop_forgets(ts, fw, i, out) ==
    IF is_active(ts, fw, i)
    THEN [tunnels |-> [ts EXCEPT ![i]._tunnel = NoHandle],
          forwarders |-> [fw EXCEPT ![ts[i]._tunnel].is_active = (out = "stop_raises_up")],
          raised |-> IF out = "ok" THEN NoError ELSE LibraryError("teardown failed"),
          calls |-> <<IF out = "ok" THEN "stop" ELSE "stop:raised">>]
    ELSE [tunnels |-> [ts EXCEPT ![i]._tunnel = NoHandle], forwarders |-> fw,
          raised |-> NoError, calls |-> <<>>]

\* self.stop() on tunnels[i].
stop(ts, fw, i, out) ==
    IF is_active(ts, fw, i)
    THEN IF out = "ok"
         THEN [tunnels |-> [ts EXCEPT ![i]._tunnel = NoHandle],
               forwarders |-> [fw EXCEPT ![ts[i]._tunnel].is_active = FALSE],
               raised |-> NoError, calls |-> <<"stop">>]
         ELSE [tunnels |-> ts,
               forwarders |-> [fw EXCEPT ![ts[i]._tunnel].is_active = (out = "stop_raises_up")],
               raised |-> LibraryError("teardown failed"), calls |-> <<"stop:raised">>]
    ELSE [tunnels |-> [ts EXCEPT ![i]._tunnel = NoHandle], forwarders |-> fw,
          raised |-> NoError, calls |-> <<>>]

\* ------------------------------------------------ calls on the core's API
\* The keyword arguments of a constructor call: the five required ones, and
\* server_ip left out, None, empty or given.
Kw(local_port, host_ip, server_ip) ==
    <<Item("local_port", local_port), Item("host_ip", host_ip),
      Item("host_port", PyInt(5432)), Item("user", PyStr("alice")),
      Item("password", PyStr("secret")), Item("name", PyStr("db"))>>
    \o (IF server_ip = PyStr("<omitted>") THEN <<>> ELSE <<Item("server_ip", server_ip)>>)

ServerIpArgs == {PyStr("<omitted>"), None, PyStr(""), PyStr("bastion.example.com")}
PortArgs     == {PyInt(0), PyInt(5432), PyInt(65536)}
HostArgs     == {PyStr(""), PyStr("10.0.0.5")}
KwArgs       == {Kw(p, h, s) : p \in PortArgs, h \in HostArgs, s \in ServerIpArgs}
ValidKw      == {Kw(PyInt(5432), PyStr("10.0.0.5"), s) : s \in {None, PyStr("bastion.example.com")}}

\* tunnel = SSHTunnel(**kw)
New(kw) ==
    /\ Len(tunnels) < MaxTunnels
    /\ IF CallRaises(kw)
       THEN /\ UNCHANGED tunnels
            /\ last' = Obs("SSHTunnel", 0, Error("TypeError", "", None), FALSE, NoHandle,
                           <<>>, <<>>, CallArg("", "", kw))
       ELSE /\ tunnels' = Append(tunnels, SSHTunnel(kw))
            /\ last' = Obs("SSHTunnel", Len(tunnels) + 1, NoError, FALSE, NoHandle,
                           <<>>, <<>>, CallArg("", "", kw))
    /\ UNCHANGED <<forwarders, files, saved, drawn, frames, shellVars>>

\* tunnels[i].start(), the SSH library answering with `out`.
Start(i, out, cause) ==
    /\ tunnels[i]._tunnel = NoHandle => Len(forwarders) < MaxHandles
    /\ out = "ctor_raises" => tunnels[i]._tunnel = NoHandle
    /\ LET r == start(tunnels, forwarders, i, out, cause)
       IN  /\ tunnels' = r.tunnels
           /\ forwarders' = r.forwarders
           /\ last' = Obs("start", i, r.raised, is_active(tunnels, forwarders, i),
                          tunnels[i]._tunnel, r.calls, <<>>, NoArg)
    /\ UNCHANGED <<files, saved, drawn, frames, shellVars>>

\* tunnels[i].stop(), the SSH library answering with `out`.
Stop(i, out) ==
    /\ LET r == stop(tunnels, forwarders, i, out)
       IN  /\ tunnels' = r.tunnels
           /\ forwarders' = r.forwarders
           /\ last' = Obs("stop", i, r.raised, is_active(tunnels, forwarders, i),
                          tunnels[i]._tunnel, r.calls, <<>>, NoArg)
    /\ UNCHANGED <<files, saved, drawn, frames, shellVars>>

\* The network drops the connection of handle h: its transport goes down.
ConnectionLost(h) ==
    /\ forwarders[h].is_active
    /\ forwarders' = [forwarders EXCEPT ![h].is_active = FALSE]
    /\ last' = Obs("lost", 0, NoError, FALSE, NoHandle, <<>>, <<>>, NoArg)
    /\ UNCHANGED <<tunnels, files, saved, drawn, frames, shellVars>>

LifecycleNext ==
    \/ \E kw \in ValidKw : New(kw)
    \/ \E i \in 1..Len(tunnels), out \in StartOutcomes, cause \in ConnectCauses : Start(i, out, cause)
    \/ \E i \in 1..Len(tunnels), out \in StopOutcomes : Stop(i, out)
    \/ \E h \in 1..Len(forwarders) : ConnectionLost(h)

\* A caller of the constructor alone, with every kind of argument.
ConstructNext == \E kw \in KwArgs : New(kw)

ConstructSpec == Init /\ [][ConstructNext]_vars

\* A client of the tunnel entity alone: constructs, starts and stops tunnels.
LifecycleSpec == Init /\ [][LifecycleNext]_vars

\* ------------------------------------------- start() and stop() on threads
\* A start() on one thread and a stop() on another, each taking one step at
\* a time: a step is one read or one write of self._tunnel, together with
\* the library call made on what was read (the library never touches the
\* field).  pc names the line of SSHTunnel.py the frame stands before.
ThreadVars == <<files, saved, drawn, last, shellVars>>

\* The call ends, with the exception that left it ("": it returned).
Return(frame, raised) == Frame("idle", frame.self, raised)

CallStart(i) ==
    /\ frames.start.pc = "idle"
    /\ frames' = [frames EXCEPT !.start = Frame("60", i, ""),
                                !.overlapped = @ \/ (frames.stop.pc # "idle" /\ frames.stop.self = i)]
    /\ UNCHANGED <<tunnels, forwarders, ThreadVars>>

\* if self._tunnel is None:
Start60 ==
    /\ frames.start.pc = "60"
    /\ frames' = [frames EXCEPT !.start.pc =
                      IF tunnels[frames.start.self]._tunnel = NoHandle THEN "62" ELSE "71"]
    /\ UNCHANGED <<tunnels, forwarders, ThreadVars>>

\* self._tunnel = SSHTunnelForwarder(...)
Start62(out) ==
    /\ frames.start.pc = "62"
    /\ Len(forwarders) < MaxHandles
    /\ LET i == frames.start.self
       IN  IF out = "ctor_raises"
           THEN /\ frames' = [frames EXCEPT !.start = Return(@, "ValueError")]
                /\ UNCHANGED <<tunnels, forwarders>>
           ELSE /\ forwarders' = Append(forwarders, NewForwarder(tunnels[i]))
                /\ tunnels' = [tunnels EXCEPT ![i]._tunnel = Len(forwarders) + 1]
                /\ frames' = [frames EXCEPT !.start.pc = "71"]
    /\ UNCHANGED ThreadVars

\* if not self.is_active(): the test of is_active(), self._tunnel is None
Start71 ==
    /\ frames.start.pc = "71"
    /\ frames' = [frames EXCEPT !.start.pc =
                      IF tunnels[frames.start.self]._tunnel = NoHandle THEN "73" ELSE "89"]
    /\ UNCHANGED <<tunnels, forwarders, ThreadVars>>

\* return self._tunnel.is_active, in the is_active() of start()
Start89 ==
    /\ frames.start.pc = "89"
    /\ LET h == tunnels[frames.start.self]._tunnel
       IN  frames' = [frames EXCEPT !.start =
                         IF h = NoHandle THEN Return(@, "AttributeError")
                         ELSE IF forwarders[h].is_active THEN Return(@, "")
                         ELSE Frame("73", @.self, "")]
    /\ UNCHANGED <<tunnels, forwarders, ThreadVars>>

\* self._tunnel.start()
Start73(out) ==
    /\ frames.start.pc = "73"
    /\ LET h == tunnels[frames.start.self]._tunnel
       IN  IF h = NoHandle
           THEN /\ out = "ok"
                /\ frames' = [frames EXCEPT !.start = Return(@, "AttributeError")]
                /\ UNCHANGED forwarders
           ELSE /\ out \in {"ok", "start_raises_down", "start_raises_up"}
                /\ forwarders' = [forwarders EXCEPT ![h].is_active =
                                      out \in {"ok", "start_raises_up"}]
                /\ frames' = [frames EXCEPT !.start =
                                  Return(@, IF out = "ok" THEN ""
                                            ELSE "BaseSSHTunnelForwarderError")]
    /\ UNCHANGED <<tunnels, ThreadVars>>

CallStop(i) ==
    /\ frames.stop.pc = "idle"
    /\ frames' = [frames EXCEPT !.stop = Frame("81", i, ""),
                                !.overlapped = @ \/ (frames.start.pc # "idle" /\ frames.start.self = i)]
    /\ UNCHANGED <<tunnels, forwarders, ThreadVars>>

\* if self.is_active(): the test of is_active(), self._tunnel is None
Stop81 ==
    /\ frames.stop.pc = "81"
    /\ frames' = [frames EXCEPT !.stop.pc =
                      IF tunnels[frames.stop.self]._tunnel = NoHandle THEN "83" ELSE "89"]
    /\ UNCHANGED <<tunnels, forwarders, ThreadVars>>

\* Mutant: stop() takes the tunnel for not active whatever the handle reports.
Stop89SkipsTeardown ==
    /\ frames.stop.pc = "89"
    /\ frames' = [frames EXCEPT !.stop.pc = "83"]
    /\ UNCHANGED <<tunnels, forwarders, ThreadVars>>

\* return self._tunnel.is_active, in the is_active() of stop()
Stop89 ==
    /\ frames.stop.pc = "89"
    /\ LET h == tunnels[frames.stop.self]._tunnel
       IN  frames' = [frames EXCEPT !.stop =
                         IF h = NoHandle THEN Return(@, "AttributeError")
                         ELSE Frame(IF forwarders[h].is_active THEN "82" ELSE "83", @.self, "")]
    /\ UNCHANGED <<tunnels, forwarders, ThreadVars>>

\* self._tunnel.stop(force=True)
Stop82(out) ==
    /\ frames.stop.pc = "82"
    /\ LET h == tunnels[frames.stop.self]._tunnel
       IN  IF h = NoHandle
           THEN /\ out = "ok"
                /\ frames' = [frames EXCEPT !.stop = Return(@, "AttributeError")]
                /\ UNCHANGED forwarders
           ELSE /\ forwarders' = [forwarders EXCEPT ![h].is_active = (out = "stop_raises_up")]
                /\ frames' = [frames EXCEPT !.stop =
                                  IF out = "ok" THEN Frame("83", @.self, "")
                                  ELSE Return(@, "BaseSSHTunnelForwarderError")]
    /\ UNCHANGED <<tunnels, ThreadVars>>

\* self._tunnel = None
Stop83 ==
    /\ frames.stop.pc = "83"
    /\ tunnels' = [tunnels EXCEPT ![frames.stop.self]._tunnel = NoHandle]
    /\ frames' = [frames EXCEPT !.stop = Return(@, "")]
    /\ UNCHANGED <<forwarders, ThreadVars>>

ThreadNext ==
    \/ \E kw \in ValidKw : New(kw)
    \/ \E i \in 1..Len(tunnels) : CallStart(i)
    \/ Start60
    \/ \E out \in {"ok", "ctor_raises"} : Start62(out)
    \/ Start71
    \/ Start89
    \/ \E out \in StartOutcomes : Start73(out)
    \/ \E i \in 1..Len(tunnels) : CallStop(i)
    \/ Stop81
    \/ Stop89
    \/ \E out \in StopOutcomes : Stop82(out)
    \/ Stop83

\* Two threads of a caller, one calling start() and one calling stop().
ThreadSpec == Init /\ [][ThreadNext]_vars

\* ---------------------------------------------- the local bind addresses
\* The tunnels of a host on which a local address admits one listener: the
\* handle of a tunnel that reports active listens on its local_bind_address,
\* and the library cannot open a second listener there ("local port in
\* use").  The answers that leave it open whether a handle listens (a start
\* or stop that raises with the transport up) are left out here.
BindFree(ts, fw, i) ==
    \A h \in 1..Len(fw) :
        (h # ts[i]._tunnel /\ fw[h].is_active)
        => fw[h].local_bind_address # <<ts[i].local_ip, ts[i].local_port>>

\* The answers the library can give to start() on tunnels[i] in (ts, fw).
StartAnswersOf(ts, fw, i) ==
    {out \in {"ok", "ctor_raises", "start_raises_down"} :
        /\ out = "ctor_raises" => ts[i]._tunnel = NoHandle
        /\ out = "ok" => BindFree(ts, fw, i)}

StartBound(i, out, cause) ==
    /\ out \in StartAnswersOf(tunnels, forwarders, i)
    /\ Start(i, out, cause)

BindKw == {Kw(PyInt(p), PyStr("10.0.0.5"), None) : p \in {5432, 8080}}

BindNext ==
    \/ \E kw \in BindKw : New(kw)
    \/ \E i \in 1..Len(tunnels), out \in StartOutcomes : StartBound(i, out, "local port in use")
    \/ \E i \in 1..Len(tunnels) : Stop(i, "ok")
    \/ \E h \in 1..Len(forwarders) : ConnectionLost(h)

\* A client of the tunnel entity on a host whose local addresses each admit
\* one listener.
BindSpec == Init /\ [][BindNext]_vars

\* ------------------------------------------------- calls on the store
\* The lists of distinct tunnels of the heap: each subset in each order.
RECURSIVE ListsOf(_)
ListsOf(ids) ==
    {<<>>} \cup UNION {{<<i>> \o l : l \in ListsOf(ids \ {i})} : i \in ids}

\* save_tunnels([tunnels[i] for i in list], path, password).  Each of the two
\* os.urandom calls of encrypt gives bytes that no earlier call gave: a
\* 16-byte draw is taken never to repeat, and is known by its number.
Save(list, path, password) ==
    LET tunnel_list == [k \in 1..Len(list) |-> tunnels[list[k]]]
        specs       == [k \in 1..Len(list) |-> Fields(tunnel_list[k])]
    IN  /\ drawn + 2 <= MaxDraws
        /\ drawn' = drawn + 2
        /\ files' = [files EXCEPT ![path] =
                        [exists |-> TRUE,
                         text |-> save_text(tunnel_list, password, drawn, drawn + 1)]]
        /\ saved' = [saved EXCEPT ![path] =
                        [by_save |-> TRUE, records |-> Len(list),
                         specs |-> specs,
                         active |-> [k \in 1..Len(list) |-> is_active(tunnels, forwarders, list[k])],
                         password |-> password,
                         again |-> /\ saved[path].by_save
                                   /\ saved[path].specs = specs
                                   /\ saved[path].password = password]]
        /\ last' = Obs("save", 0, NoError, FALSE, NoHandle, <<>>, <<>>, FileArg(path, password))
        /\ UNCHANGED <<tunnels, forwarders, frames, shellVars>>

\* load_tunnels(path, password); g is what a wrong key makes of the bytes.
Load(path, password, g) ==
    LET r == load_text(files[path].text, password, g)
    IN  /\ last' = IF ~files[path].exists
                   THEN Obs("load", 0, Error("FileNotFoundError", "", None), FALSE, NoHandle,
                            <<>>, <<>>, FileArg(path, password))
                   ELSE Obs("load", 0, IF r.err = "" THEN NoError ELSE Error(r.err, "", None),
                            FALSE, NoHandle, <<>>, r.val, FileArg(path, password))
        /\ UNCHANGED <<tunnels, forwarders, files, saved, drawn, frames, shellVars>>

\* Session files that did not come from this save_tunnels (another version,
\* an edited copy): lists of records some of which the constructor refuses
\* (a required key missing, an unknown key), or that leave server_ip out.
GoodRecord == to_dict(SSHTunnel(Kw(PyInt(5432), PyStr("10.0.0.5"), PyStr("bastion.example.com"))))
ForeignData ==
    {<<GoodRecord, SelectSeq(GoodRecord, LAMBDA it : it.k # "user")>>,
     <<GoodRecord \o <<Item("key_file", PyStr("id_rsa"))>>>>,
     <<SelectSeq(GoodRecord, LAMBDA it : it.k # "server_ip"), GoodRecord>>,
     <<Kw(PyInt(65536), PyStr("10.0.0.5"), None)>>}

ForeignFile(path, data, password) ==
    /\ files' = [files EXCEPT ![path] =
                    [exists |-> TRUE, text |-> encrypt(json_dumps(data), password, 0, 0)]]
    /\ saved' = [saved EXCEPT ![path] = NotSaved(Len(data))]
    /\ UNCHANGED <<drawn, frames>>
    /\ last' = Obs("foreign", 0, NoError, FALSE, NoHandle, <<>>, <<>>, NoArg)
    /\ UNCHANGED <<tunnels, forwarders, shellVars>>

\* A session file cut short (a copy that broke off): its first n bytes.
TruncateLens == {20}

TruncateFile(path, n) ==
    /\ files[path].exists
    /\ Len(b64decode(files[path].text)) > n
    /\ files' = [files EXCEPT ![path].text = b64encode(Slice(b64decode(@), 0, n))]
    /\ saved' = [saved EXCEPT ![path] = NotSaved(0)]
    /\ UNCHANGED <<drawn, frames>>
    /\ last' = Obs("truncate", 0, NoError, FALSE, NoHandle, <<>>, <<>>, NoArg)
    /\ UNCHANGED <<tunnels, forwarders, shellVars>>

StoreNext ==
    \/ \E kw \in ValidKw : New(kw)
    \/ \E i \in 1..Len(tunnels) : Start(i, "ok", "")
    \/ \E list \in ListsOf(1..Len(tunnels)), path \in Paths, password \in Passwords :
          Save(list, path, password)
    \/ \E path \in Paths, password \in Passwords, g \in GarbageKinds : Load(path, password, g)
    \/ \E path \in Paths, data \in ForeignData : ForeignFile(path, data, "hunter2")
    \/ \E path \in Paths, n \in TruncateLens : TruncateFile(path, n)

\* A client of the session store: constructs tunnels, starts some, saves
\* lists of them and loads session files.
StoreSpec == Init /\ [][StoreNext]_vars

\* ------------------------------------------------------- TunnelUI (dialog)
\* The form: the texts of the line edits and the values of the spin boxes.
Form(name, local_ip, local_port, host_ip, host_port, server_ip, server_port, user, password) ==
    [name |-> name, local_ip |-> local_ip, local_port |-> local_port,
     host_ip |-> host_ip, host_port |-> host_port, server_ip |-> server_ip,
     server_port |-> server_port, user |-> user, password |-> password]

\* QSpinBox.setValue with setMinimum(1), setMaximum(65535).
SpinValue(n) == IF n < 1 THEN 1 ELSE IF n > 65535 THEN 65535 ELSE n

\* TunnelUI(): the form as the dialog opens on no tunnel.
NewTunnelForm == Form("", "127.0.0.1", 1025, "127.0.0.1", 1025, "", 22, "", "")

\* TunnelUI(tunnel): the form as the dialog opens on a tunnel.
TunnelUI(tunnel) ==
    Form(tunnel.name.s, tunnel.local_ip.s, SpinValue(tunnel.local_port.n),
         tunnel.host_ip.s, SpinValue(tunnel.host_port.n), tunnel.server_ip.s,
         SpinValue(tunnel.server_port.n), tunnel.user.s, tunnel.password.s)

\* What the user does before pressing Ok: nothing, or retypes one field.
FormEdits == {"none", "clear server_ip", "type server_ip"}

Typed(form, edit) ==
    CASE edit = "clear server_ip" -> [form EXCEPT !.server_ip = ""]
      [] edit = "type server_ip"  -> [form EXCEPT !.server_ip = "bastion.example.com"]
      [] OTHER                    -> form

get_tunnel(form) ==
    SSHTunnel(<<Item("name", PyStr(form.name)), Item("local_ip", PyStr(form.local_ip)),
                Item("local_port", PyInt(form.local_port)), Item("host_ip", PyStr(form.host_ip)),
                Item("host_port", PyInt(form.host_port)), Item("server_ip", PyStr(form.server_ip)),
                Item("server_port", PyInt(form.server_port)), Item("user", PyStr(form.user)),
                Item("password", PyStr(form.password))>>)

update_tunnel(orig, form) ==
    [orig EXCEPT !.name = PyStr(form.name), !.local_ip = PyStr(form.local_ip),
                 !.local_port = PyInt(form.local_port), !.host_ip = PyStr(form.host_ip),
                 !.host_port = PyInt(form.host_port), !.server_ip = PyStr(form.server_ip),
                 !.server_port = PyInt(form.server_port), !.user = PyStr(form.user),
                 !.password = PyStr(form.password)]

\* ------------------------------------------------------------------ MainUI
\* str(port)
Str(v) == IF v.t = "int" THEN PyStr(ToString(v.n)) ELSE v

\* The texts of a tree row, columns 1 to 7.
RowValues(tunnel) ==
    <<tunnel.name, tunnel.local_ip, Str(tunnel.local_port), tunnel.host_ip,
      Str(tunnel.host_port), tunnel.server_ip, Str(tunnel.server_port)>>

\* A tree row: its texts and, in column 0, the check box made for it.  A
\* check box is known by the tunnel its clicked signal is bound to.
TreeRow(ts, i) == [values |-> RowValues(ts[i]), check_box |-> i, checked |-> FALSE]

TunnelItem(tunnel, check_box) == [tunnel |-> tunnel, check_box |-> check_box]

\* _add_tree_item(tunnel) for tunnels[i] in heap ts.
_add_tree_item(rows, ts, i) == Append(rows, TreeRow(ts, i))

\* check_box.setChecked(value).  The view owns the check box of a row and
\* deletes it with the row; a call on a deleted widget raises RuntimeError.
setChecked(rows, check_box, value) ==
    IF \E k \in 1..Len(rows) : rows[k].check_box = check_box
    THEN [rows |-> [k \in 1..Len(rows) |->
                       IF rows[k].check_box = check_box
                       THEN [rows[k] EXCEPT !.checked = value] ELSE rows[k]],
          raised |-> NoError]
    ELSE [rows |-> rows, raised |-> Error("RuntimeError", "check box deleted", None)]

\* del list[index]; tree_model.takeRow(index)
Remove(s, index) == [k \in 1..(Len(s) - 1) |-> IF k < index THEN s[k] ELSE s[k + 1]]

\* What a handler of the window leaves as the last call.
Handled(op, self, raised, calls) ==
    Obs(op, self, raised, FALSE, NoHandle, calls, <<>>, NoArg)

\* _on_add_button_click: the dialog accepted with the user's edit.
OnAdd(edit) ==
    /\ running
    /\ Len(tunnels) < MaxTunnels
    /\ LET i  == Len(tunnels) + 1
           ts == Append(tunnels, get_tunnel(Typed(NewTunnelForm, edit)))
       IN  /\ tunnels' = ts
           /\ tree_rows' = _add_tree_item(tree_rows, ts, i)
           /\ _tunnels_items' = Append(_tunnels_items, TunnelItem(i, i))
           /\ last' = Handled("add", i, NoError, <<>>)
    /\ UNCHANGED <<forwarders, files, saved, drawn, frames, running>>

\* Mutant: the edit writes the form into the tunnel also when stop() raised.
OnEditUpdatesAnyway(row, edit, out) ==
    /\ running
    /\ row \in 1..Len(tree_rows)
    /\ IF row > Len(_tunnels_items)
       THEN /\ last' = Handled("edit", 0, Error("IndexError", "", None), <<>>)
            /\ UNCHANGED <<tunnels, forwarders, tree_rows>>
       ELSE LET i    == _tunnels_items[row].tunnel
                form == Typed(TunnelUI(tunnels[i]), edit)
                r    == stop(tunnels, forwarders, i, out)
                ts   == [r.tunnels EXCEPT ![i] = update_tunnel(@, form)]
                rows == [tree_rows EXCEPT ![row].values = RowValues(ts[i])]
                c    == setChecked(rows, _tunnels_items[row].check_box,
                                   is_active(ts, r.forwarders, i))
            IN  /\ out # "ok" => is_active(tunnels, forwarders, i)
                /\ forwarders' = r.forwarders
                /\ tunnels' = ts
                /\ tree_rows' = c.rows
                /\ last' = Handled("edit", i, IF r.raised # NoError THEN r.raised ELSE c.raised,
                                   r.calls)
    /\ UNCHANGED <<files, saved, drawn, frames, _tunnels_items, running>>

\* _on_edit_button_click / _on_tree_double_clicked on the selected row, the
\* dialog accepted: _ui_edit_tunnel_row.  An exception leaves the handler at
\* the statement that raised it and log_errors shows it.
OnEdit(row, edit, out) ==
    /\ running
    /\ row \in 1..Len(tree_rows)
    /\ IF row > Len(_tunnels_items)
       THEN /\ last' = Handled("edit", 0, Error("IndexError", "", None), <<>>)
            /\ UNCHANGED <<tunnels, forwarders, tree_rows>>
       ELSE LET i    == _tunnels_items[row].tunnel
                form == Typed(TunnelUI(tunnels[i]), edit)
                r    == stop(tunnels, forwarders, i, out)
                ts   == [r.tunnels EXCEPT ![i] = update_tunnel(@, form)]
                rows == [tree_rows EXCEPT ![row].values = RowValues(ts[i])]
                c    == setChecked(rows, _tunnels_items[row].check_box,
                                   is_active(ts, r.forwarders, i))
            IN  /\ out # "ok" => is_active(tunnels, forwarders, i)
                /\ forwarders' = r.forwarders
                /\ tunnels' = IF r.raised # NoError THEN r.tunnels ELSE ts
                /\ tree_rows' = IF r.raised # NoError THEN tree_rows ELSE c.rows
                /\ last' = Handled("edit", i, IF r.raised # NoError THEN r.raised ELSE c.raised,
                                   r.calls)
    /\ UNCHANGED <<files, saved, drawn, frames, _tunnels_items, running>>

\* _on_duplicate_button_click on the selected row, the dialog accepted.
OnDuplicate(row, edit) ==
    /\ running
    /\ row \in 1..Len(tree_rows)
    /\ Len(tunnels) < MaxTunnels
    /\ IF row > Len(_tunnels_items)
       THEN /\ last' = Handled("duplicate", 0, Error("IndexError", "", None), <<>>)
            /\ UNCHANGED <<tunnels, tree_rows, _tunnels_items>>
       ELSE LET i  == Len(tunnels) + 1
                ts == Append(tunnels,
                             get_tunnel(Typed(TunnelUI(tunnels[_tunnels_items[row].tunnel]), edit)))
            IN  /\ tunnels' = ts
                /\ tree_rows' = _add_tree_item(tree_rows, ts, i)
                /\ _tunnels_items' = Append(_tunnels_items, TunnelItem(i, i))
                /\ last' = Handled("duplicate", i, NoError, <<>>)
    /\ UNCHANGED <<forwarders, files, saved, drawn, frames, running>>

\* _on_delete_button_click / the Delete key on the selected row:
\* _delete_tunnel_row takes the row, then stops the tunnel, then deletes the
\* list entry.
OnDelete(row, out) ==
    /\ running
    /\ row \in 1..Len(tree_rows)
    /\ tree_rows' = Remove(tree_rows, row)
    /\ IF row > Len(_tunnels_items)
       THEN /\ last' = Handled("delete", 0, Error("IndexError", "", None), <<>>)
            /\ UNCHANGED <<tunnels, forwarders, _tunnels_items>>
       ELSE LET i == _tunnels_items[row].tunnel
                r == stop(tunnels, forwarders, i, out)
            IN  /\ out # "ok" => is_active(tunnels, forwarders, i)
                /\ tunnels' = r.tunnels
                /\ forwarders' = r.forwarders
                /\ _tunnels_items' = IF r.raised # NoError THEN _tunnels_items
                                     ELSE Remove(_tunnels_items, row)
                /\ last' = Handled("delete", i, r.raised, r.calls)
    /\ UNCHANGED <<files, saved, drawn, frames, running>>

\* A click on the check box of a row: _toggle_tunnel(tunnel, checkBox, value),
\* value the state the click gave the box.  The exception of a start or stop
\* is shown by the handler itself.
OnToggle(row, out, cause) ==
    /\ running
    /\ row \in 1..Len(tree_rows)
    /\ LET i      == tree_rows[row].check_box
           value  == ~tree_rows[row].checked
           active == is_active(tunnels, forwarders, i)
           starts == value /\ ~active
           stops  == ~value /\ active
           r      == IF starts THEN start(tunnels, forwarders, i, out, cause)
                     ELSE IF stops THEN stop(tunnels, forwarders, i, out)
                     ELSE [tunnels |-> tunnels, forwarders |-> forwarders,
                           raised |-> NoError, calls |-> <<>>]
       IN  /\ starts => out \in StartOutcomes
           /\ stops => out \in StopOutcomes
           /\ ~starts /\ ~stops => out = "ok"
           /\ out = "ctor_raises" => tunnels[i]._tunnel = NoHandle
           /\ Len(r.forwarders) <= MaxHandles
           /\ tunnels' = r.tunnels
           /\ forwarders' = r.forwarders
           /\ tree_rows' = [tree_rows EXCEPT ![row].checked =
                               is_active(r.tunnels, r.forwarders, i)]
           /\ last' = Handled("toggle", i, r.raised, r.calls)
    /\ UNCHANGED <<files, saved, drawn, frames, _tunnels_items, running>>

\* The loop of _on_start_all_button_click from entry k on, the SSH library
\* answering the k-th start with outs[k]: the heaps and rows it leaves, the
\* exception that left the loop, the entries whose start() was called and the
\* exceptions the loop itself showed.
RECURSIVE StartAll(_, _, _, _, _, _, _)
StartAll(ts, fw, rows, k, outs, attempted, shown) ==
    IF k > Len(_tunnels_items)
    THEN [tunnels |-> ts, forwarders |-> fw, rows |-> rows, raised |-> NoError,
          attempted |-> attempted, shown |-> shown]
    ELSE LET it == _tunnels_items[k]
             r  == start(ts, fw, it.tunnel, outs[k], "host unreachable")
             c  == setChecked(rows, it.check_box, is_active(r.tunnels, r.forwarders, it.tunnel))
             sh == IF r.raised # NoError THEN Append(shown, r.raised) ELSE shown
         IN  IF c.raised # NoError
             THEN [tunnels |-> r.tunnels, forwarders |-> r.forwarders, rows |-> rows,
                   raised |-> c.raised, attempted |-> Append(attempted, k), shown |-> sh]
             ELSE StartAll(r.tunnels, r.forwarders, c.rows, k + 1, outs,
                           Append(attempted, k), sh)

\* The loop of _on_stop_all_button_click.
RECURSIVE StopAll(_, _, _, _, _, _, _)
StopAll(ts, fw, rows, k, outs, attempted, shown) ==
    IF k > Len(_tunnels_items)
    THEN [tunnels |-> ts, forwarders |-> fw, rows |-> rows, raised |-> NoError,
          attempted |-> attempted, shown |-> shown]
    ELSE LET it == _tunnels_items[k]
             r  == stop(ts, fw, it.tunnel, outs[k])
             c  == setChecked(rows, it.check_box, is_active(r.tunnels, r.forwarders, it.tunnel))
             sh == IF r.raised # NoError THEN Append(shown, r.raised) ELSE shown
         IN  IF c.raised # NoError
             THEN [tunnels |-> r.tunnels, forwarders |-> r.forwarders, rows |-> rows,
                   raised |-> c.raised, attempted |-> Append(attempted, k), shown |-> sh]
             ELSE StopAll(r.tunnels, r.forwarders, c.rows, k + 1, outs,
                          Append(attempted, k), sh)

\* The loop of _on_action_load that stops the current tunnels; what a stop
\* raises is passed over.
RECURSIVE StopCurrent(_, _, _, _)
StopCurrent(ts, fw, k, outs) ==
    IF k > Len(_tunnels_items)
    THEN [tunnels |-> ts, forwarders |-> fw]
    ELSE LET r == stop(ts, fw, _tunnels_items[k].tunnel, outs[k])
         IN  StopCurrent(r.tunnels, r.forwarders, k + 1, outs)

\* The answers of the SSH library to the calls of a loop over the list: one
\* for each entry, a failure only where the call reaches the library.
StartAnswers ==
    {outs \in [1..Len(_tunnels_items) -> StartOutcomes] :
        \A k \in 1..Len(_tunnels_items) :
            LET i == _tunnels_items[k].tunnel
            IN  /\ outs[k] = "ctor_raises" => tunnels[i]._tunnel = NoHandle
                /\ outs[k] # "ok" => ~is_active(tunnels, forwarders, i)}

StopAnswers ==
    {outs \in [1..Len(_tunnels_items) -> StopOutcomes] :
        \A k \in 1..Len(_tunnels_items) :
            outs[k] # "ok" => is_active(tunnels, forwarders, _tunnels_items[k].tunnel)}

\* The record of a loop handler: the entries attempted, the exceptions shown
\* by the loop and the one that left it.
Looped(op, r) ==
    Obs(op, 0, r.raised, FALSE, NoHandle, r.attempted, r.shown, NoArg)

OnStartAll(outs) ==
    /\ running
    /\ LET r == StartAll(tunnels, forwarders, tree_rows, 1, outs, <<>>, <<>>)
       IN  /\ Len(r.forwarders) <= MaxHandles
           /\ tunnels' = r.tunnels
           /\ forwarders' = r.forwarders
           /\ tree_rows' = r.rows
           /\ last' = Looped("start_all", r)
    /\ UNCHANGED <<files, saved, drawn, frames, _tunnels_items, running>>

OnStopAll(outs) ==
    /\ running
    /\ LET r == StopAll(tunnels, forwarders, tree_rows, 1, outs, <<>>, <<>>)
       IN  /\ tunnels' = r.tunnels
           /\ forwarders' = r.forwarders
           /\ tree_rows' = r.rows
           /\ last' = Looped("stop_all", r)
    /\ UNCHANGED <<files, saved, drawn, frames, _tunnels_items, running>>

\* _on_action_exit: the stop-all handler, which lets no exception out, then
\* QCoreApplication.quit().
OnExit(outs) ==
    /\ running
    /\ LET r == StopAll(tunnels, forwarders, tree_rows, 1, outs, <<>>, <<>>)
       IN  /\ tunnels' = r.tunnels
           /\ forwarders' = r.forwarders
           /\ tree_rows' = r.rows
           /\ last' = Looped("exit", r)
    /\ running' = FALSE
    /\ UNCHANGED <<files, saved, drawn, frames, _tunnels_items>>

\* _on_action_save, a password and a file name given.
OnSave(path, password) ==
    /\ running
    /\ Save([k \in 1..Len(_tunnels_items) |-> _tunnels_items[k].tunnel],
            path, password)

\* _on_action_load, an existing file and a password given: stops the current
\* tunnels, empties the tree and the list, then loads and adds the tunnels.
OnLoad(path, password, g, outs) ==
    /\ running
    /\ files[path].exists
    /\ LET s    == StopCurrent(tunnels, forwarders, 1, outs)
           r    == load_text(files[path].text, password, g)
           n    == Len(tunnels)
           ts   == s.tunnels \o r.val
           news == [k \in 1..Len(r.val) |-> n + k]
       IN  /\ Len(ts) <= MaxTunnels
           /\ forwarders' = s.forwarders
           /\ tunnels' = ts
           /\ tree_rows' = [k \in 1..Len(r.val) |-> TreeRow(ts, n + k)]
           /\ _tunnels_items' = [k \in 1..Len(r.val) |-> TunnelItem(n + k, n + k)]
           /\ last' = Obs("open", 0, IF r.err = "" THEN NoError ELSE Error(r.err, "", None),
                          FALSE, NoHandle, <<>>, news, FileArg(path, password))
    /\ UNCHANGED <<files, saved, drawn, frames, running>>

Next ==
    \/ \E edit \in FormEdits : OnAdd(edit)
    \/ \E row \in 1..Len(tree_rows), edit \in FormEdits, out \in StopOutcomes : OnEdit(row, edit, out)
    \/ \E row \in 1..Len(tree_rows), edit \in FormEdits : OnDuplicate(row, edit)
    \/ \E row \in 1..Len(tree_rows), out \in StopOutcomes : OnDelete(row, out)
    \/ \E row \in 1..Len(tree_rows), out \in StartOutcomes \cup StopOutcomes :
          OnToggle(row, out, "host unreachable")
    \/ \E outs \in StartAnswers : OnStartAll(outs)
    \/ \E outs \in StopAnswers : OnStopAll(outs)
    \/ \E outs \in StopAnswers : OnExit(outs)
    \/ \E h \in 1..Len(forwarders) : ConnectionLost(h)

\* The user at the main window, working on the list of tunnels, and the
\* network.
Spec == Init /\ [][Next]_vars

SessionNext ==
    \/ \E edit \in FormEdits : OnAdd(edit)
    \/ \E row \in 1..Len(tree_rows), out \in StartOutcomes \cup StopOutcomes :
          OnToggle(row, out, "host unreachable")
    \/ \E path \in Paths : OnSave(path, "hunter2")
    \/ \E path \in Paths, password \in Passwords, g \in GarbageKinds, outs \in StopAnswers :
          OnLoad(path, password, g, outs)

\* The user at the main window, saving and opening session files.
SessionSpec == Init /\ [][SessionNext]_vars

\* ========================================================= window claims
\* C8: the server_ip of every tunnel of the window is a non-empty string,
\* whatever was constructed, edited or duplicated.
C8_ServerIpNeverEmpty ==
    \A k \in 1..Len(_tunnels_items) :
        LET self == tunnels[_tunnels_items[k].tunnel]
        IN  self.server_ip.t = "str" /\ self.server_ip.s # ""

\* ============================================ constructor and store claims
IsPort(v) == v.t = "int" /\ v.n \in 1..65535

\* A valid TunnelSpec: the three ports in 1..65535 and a server_ip.
ValidSpec(f) ==
    /\ IsPort(f.local_port) /\ IsPort(f.host_port) /\ IsPort(f.server_port)
    /\ f.server_ip.t = "str" /\ f.server_ip.s # ""

\* C4: a load_tunnels of a file that save_tunnels wrote from a list of valid
\* tunnels, under the password it was saved with, returns as many tunnels, in
\* the same order, each equal on its nine fields to the one saved.
C4_RoundTrip ==
    LET s == saved[last.arg.path]
    IN  (/\ last.op = "load"
         /\ s.by_save
         /\ last.arg.password = s.password
         /\ \A k \in 1..Len(s.specs) : ValidSpec(s.specs[k]))
        => /\ last.raised = NoError
           /\ Len(last.returned) = Len(s.specs)
           /\ \A k \in 1..Len(s.specs) : Fields(last.returned[k]) = s.specs[k]

\* C4's case: two different tunnels saved and then loaded under the same
\* password.
C4_LoadedTwo ==
    /\ last.op = "load"
    /\ saved[last.arg.path].by_save
    /\ last.arg.password = saved[last.arg.path].password
    /\ Len(saved[last.arg.path].specs) = 2
    /\ saved[last.arg.path].specs[1] # saved[last.arg.path].specs[2]
    /\ Len(last.returned) = 2

\* C7: every constructed tunnel has its three ports in 1..65535: a
\* constructor call with another local_port fails.
C7_PortsInRange ==
    \A i \in 1..Len(tunnels) :
        IsPort(tunnels[i].local_port) /\ IsPort(tunnels[i].host_port) /\ IsPort(tunnels[i].server_port)

\* C9: a tunnel constructed with server_ip left out, None or empty has
\* server_ip = host_ip; constructed with another server_ip, it has that one.
C9_ServerIpDefaulting ==
    (last.op = "SSHTunnel" /\ last.raised = NoError) =>
        LET kw == last.arg.kw
            t  == tunnels[last.self]
        IN  IF "server_ip" \notin DictKeys(kw) \/ DictGet(kw, "server_ip") \in {None, PyStr("")}
            THEN t.server_ip = DictGet(kw, "host_ip")
            ELSE t.server_ip = DictGet(kw, "server_ip")

\* C9's case: a tunnel constructed with no server_ip, to a host.
C9_Defaulted ==
    /\ last.op = "SSHTunnel"
    /\ last.raised = NoError
    /\ "server_ip" \notin DictKeys(last.arg.kw)
    /\ tunnels[last.self].server_ip = PyStr("10.0.0.5")

\* C10: a load_tunnels either fails and returns nothing, or returns one tunnel
\* for each record of the file, each with no handle (Inactive).
C10_LoadAllOrNothing ==
    last.op = "load" =>
        IF last.raised # NoError THEN last.returned = <<>>
        ELSE /\ Len(last.returned) = saved[last.arg.path].records
             /\ \A k \in 1..Len(last.returned) : last.returned[k]._tunnel = NoHandle

\* C10's case: a tunnel that was Active when it was saved has been loaded.
C10_LoadedSavedActive ==
    /\ last.op = "load"
    /\ last.raised = NoError
    /\ saved[last.arg.path].by_save
    /\ \E k \in 1..Len(last.returned) : saved[last.arg.path].active[k]

\* The exceptions of the code by the kind of failure they report: what the
\* padding removal raises on an invalid pad; what the decoding of the bytes,
\* the JSON parser and the constructor raise on data that is no list of
\* tunnel records.
IntegrityErrors       == {"ValueError"}
DeserializationErrors == {"UnicodeDecodeError", "JSONDecodeError", "TypeError"}

C12_ShortBlobIsFormatError ==
    (/\ last.op = "load"
     /\ files[last.arg.path].exists
     /\ Len(b64decode(files[last.arg.path].text)) < SaltLen + IvLen)
    => /\ last.raised # NoError
       /\ last.raised.type \notin IntegrityErrors

\* C14: a save_tunnels given the list and the password of the save_tunnels
\* that wrote the file before writes a text other than the one that was there.
C14_SaveAgainStep ==
    \A path \in Paths :
        (last'.op = "save" /\ last'.arg.path = path /\ saved'[path].again)
        => files'[path].text # files[path].text

C14_CiphertextDiffers == [][C14_SaveAgainStep]_vars

\* C14's case: a list of two tunnels saved twice under one password.
C14_SavedTwice ==
    /\ last.op = "save"
    /\ saved[last.arg.path].again
    /\ Len(saved[last.arg.path].specs) = 2

\* ======================================================= lifecycle claims
Raised(calls) == \E k \in 1..Len(calls) : calls[k] \in {"SSHTunnelForwarder:raised", "start:raised", "stop:raised"}

\* C1: stop() always leaves the tunnel Inactive and never fails the caller:
\* after every stop(), also one whose teardown reported an error, the call
\* has returned normally, is_active() is false and the tunnel holds no handle.
C1_StopAlwaysInactive ==
    last.op = "stop" =>
        /\ last.raised = NoError
        /\ ~is_active(tunnels, forwarders, last.self)
        /\ tunnels[last.self]._tunnel = NoHandle

\* C2: when the connect attempt of start() fails, start() fails with a
\* ConnectionError carrying the tunnel's name and the underlying cause, and
\* the tunnel is Inactive afterwards.
C2_StartFailureIsConnectionError ==
    (last.op = "start" /\ Raised(last.calls)) =>
        /\ last.raised.type = "ConnectionError"
        /\ last.raised.name = tunnels[last.self].name
        /\ last.raised.cause \in ConnectCauses
        /\ ~is_active(tunnels, forwarders, last.self)

\* C3: a fresh tunnel is not active; after a start() whose connect succeeded
\* it is active; after a stop() it is not active; and a stop() on a tunnel
\* already stopped does not raise.
C3_Lifecycle ==
    /\ (last.op = "SSHTunnel" /\ last.raised = NoError)
           => ~is_active(tunnels, forwarders, last.self)
    /\ (last.op = "start" /\ last.raised = NoError)
           => is_active(tunnels, forwarders, last.self)
    /\ last.op = "stop" => ~is_active(tunnels, forwarders, last.self)
    /\ (last.op = "stop" /\ last.old_handle = NoHandle) => last.raised = NoError

\* C5: start() on an Active tunnel makes no call on the SSH library, creates
\* no handle and keeps the one it holds; stop() on an Inactive tunnel does not
\* raise, makes no call on the SSH library and leaves every tunnel's fields
\* and activity, and every handle, as they were.
C5_IdempotentStep ==
    /\ (last'.op = "start" /\ last'.was_active) =>
           /\ last'.raised = NoError
           /\ last'.calls = <<>>
           /\ tunnels' = tunnels
           /\ forwarders' = forwarders
    /\ (last'.op = "stop" /\ ~last'.was_active) =>
           /\ last'.raised = NoError
           /\ last'.calls = <<>>
           /\ forwarders' = forwarders
           /\ \A i \in 1..Len(tunnels) :
                 /\ Fields(tunnels'[i]) = Fields(tunnels[i])
                 /\ is_active(tunnels', forwarders', i) = is_active(tunnels, forwarders, i)

C5_Idempotent == [][C5_IdempotentStep]_vars

\* C5's case: a start() was called on a tunnel that was Active.
C5_StartOnActive == last.op = "start" /\ last.was_active /\ last.old_handle # NoHandle

\* C6: stop() on an Active tunnel discards the handle, and a start() that
\* follows the stop() leaves the tunnel with another handle than the one
\* stopped.
C6_FreshHandleStep ==
    /\ (last'.op = "stop" /\ last'.was_active) => tunnels'[last'.self]._tunnel = NoHandle
    /\ (last.op = "stop" /\ last.was_active /\ last'.op = "start" /\ last'.self = last.self)
           => tunnels'[last'.self]._tunnel # last.old_handle

C6_HandleNeverReused == [][C6_FreshHandleStep]_vars

\* The heap of handles with every handle but that of tunnels[i] down.
OthersStopped(ts, fw, i) ==
    [h \in 1..Len(fw) |-> IF h = ts[i]._tunnel THEN fw[h] ELSE [fw[h] EXCEPT !.is_active = FALSE]]

\* C13: a start() or stop() on a tunnel leaves every other tunnel's fields,
\* handle and is_active() as they were,
C13_FrameStep ==
    last'.op \in {"start", "stop"} =>
        \A j \in (1..Len(tunnels)) \ {last'.self} :
            /\ tunnels'[j] = tunnels[j]
            /\ is_active(tunnels', forwarders', j) = is_active(tunnels, forwarders, j)
            /\ tunnels[j]._tunnel # NoHandle
               => forwarders'[tunnels[j]._tunnel] = forwarders[tunnels[j]._tunnel]

\* and the answers a start() on an Inactive tunnel can get are those it could
\* get with every other tunnel stopped, also for tunnels of one local address.
C13_OutcomeIndependent ==
    \A i \in 1..Len(tunnels) :
        ~is_active(tunnels, forwarders, i)
        => StartAnswersOf(tunnels, forwarders, i)
           = StartAnswersOf(tunnels, OthersStopped(tunnels, forwarders, i), i)

C13_TunnelsIndependent == [][C13_FrameStep /\ C13_OutcomeIndependent']_vars

\* C15: every handle that reports active is held by exactly one tunnel; a
\* stop() that clears the handle field leaves the handle it held not active;
\* and a start() on a tunnel that holds a handle leaves it holding that one.
C15_OwnedStep ==
    /\ \A h \in 1..Len(forwarders') :
           forwarders'[h].is_active
           => Cardinality({i \in 1..Len(tunnels') : tunnels'[i]._tunnel = h}) = 1
    /\ (last'.op = "stop" /\ last'.old_handle # NoHandle
                          /\ tunnels'[last'.self]._tunnel = NoHandle)
           => ~forwarders'[last'.old_handle].is_active
    /\ (last'.op = "start" /\ last'.old_handle # NoHandle)
           => tunnels'[last'.self]._tunnel = last'.old_handle

C15_AtMostOneActiveHandle == [][C15_OwnedStep]_vars

\* C15's case: a tunnel started, stopped and started again holds its second
\* handle, active, the first one down.
C15_SecondHandleActive ==
    /\ last.op = "start"
    /\ Len(tunnels) = 1
    /\ Len(forwarders) = 2
    /\ tunnels[1]._tunnel = 2
    /\ forwarders[2].is_active
    /\ ~forwarders[1].is_active

\* The calls of a start() on the library: the constructor, the handle's start.
Built(calls)   == \E k \in 1..Len(calls) : calls[k] \in {"SSHTunnelForwarder", "SSHTunnelForwarder:raised"}
Started(calls) == \E k \in 1..Len(calls) : calls[k] \in {"start", "start:raised"}

\* C16: start() builds a handle exactly when the tunnel holds none, and calls
\* the handle's start exactly when the tunnel is not active then; a handle
\* whose start raised is kept, and a start() on a tunnel that holds a handle
\* that is down starts that handle and builds none.
C16_StartStep ==
    last'.op = "start" =>
        LET self == last'.self
        IN  /\ Built(last'.calls) <=> last'.old_handle = NoHandle
            /\ "SSHTunnelForwarder:raised" \notin {last'.calls[k] : k \in 1..Len(last'.calls)}
                   => (Started(last'.calls) <=> ~last'.was_active)
            /\ Started(last'.calls) => tunnels'[self]._tunnel # NoHandle
            /\ (last'.old_handle # NoHandle /\ ~last'.was_active)
                   => /\ tunnels'[self]._tunnel = last'.old_handle
                      /\ Len(forwarders') = Len(forwarders)
                      /\ Len(last'.calls) = 1 /\ Started(last'.calls)

C16_StartReusesHandle == [][C16_StartStep]_vars

\* C16's case: a start() on a tunnel whose start() had failed: the one handle
\* ever built is held and has been started again, now active.
C16_RestartedSameHandle ==
    /\ last.op = "start"
    /\ last.old_handle = 1
    /\ ~last.was_active
    /\ Len(forwarders) = 1
    /\ tunnels[last.self]._tunnel = 1
    /\ forwarders[1].is_active

\* A handle that reports active and that no tunnel holds.
Orphaned(h) == forwarders[h].is_active /\ \A i \in 1..Len(tunnels) : tunnels[i]._tunnel # h

\* C17: with start() and stop() taking their steps in turn, a handle comes to
\* report active while no tunnel holds it, and a start() or stop() comes to
\* call the handle of a cleared field, only once a start() and a stop() on
\* one tunnel have been in progress together.
C17_RaceNeedsInterleaving ==
    (\/ \E h \in 1..Len(forwarders) : Orphaned(h)
     \/ frames.start.raised = "AttributeError"
     \/ frames.stop.raised = "AttributeError")
    => frames.overlapped

\* C17's case: a start() and a stop() on one tunnel have both returned, the
\* handle reports active and the tunnel holds none: it reports Inactive.
C17_ActiveHandleUnreferenced ==
    /\ frames.start.pc = "idle" /\ frames.stop.pc = "idle"
    /\ frames.start.self = 1 /\ frames.stop.self = 1
    /\ frames.start.raised = "" /\ frames.stop.raised = ""
    /\ Orphaned(1)
    /\ ~is_active(tunnels, forwarders, 1)

\* C17's other case: a start() ended calling start on a field that the
\* stop() in progress had cleared.
C17_StartOnClearedField ==
    /\ frames.start.raised = "AttributeError"
    /\ tunnels[frames.start.self]._tunnel = NoHandle

\* The handle's arguments: what SSHTunnelForwarder was constructed from.
Arguments(handle) == [handle EXCEPT !.is_active = FALSE]

\* C18: in the window, the handle a tunnel holds was constructed from the
\* values the tunnel's fields have now: its SSH server, destination, local
\* address and credentials are the tunnel's.
C18_HandleFromCurrentFields ==
    \A i \in 1..Len(tunnels) :
        tunnels[i]._tunnel # NoHandle
            => Arguments(forwarders[tunnels[i]._tunnel]) = NewForwarder(tunnels[i])

\* C18's case: the one tunnel of the window was started, edited to another
\* SSH server and started again; the handle of before the edit is dropped.
C18_RestartedAfterEdit ==
    /\ Len(tunnels) = 1 /\ Len(forwarders) = 2
    /\ tunnels[1]._tunnel = 2
    /\ forwarders[2].is_active
    /\ forwarders[1].ssh_address_or_host # forwarders[2].ssh_address_or_host

\* The tunnels of the window's list, in its order.
Listed == [k \in 1..Len(_tunnels_items) |-> _tunnels_items[k].tunnel]

\* An Open session whose load_tunnels raised: the list holds the tunnels it
\* held, in their order, and the tunnels that were active still are.
C19_FailedLoadStep ==
    (last'.op = "open" /\ last'.raised # NoError)
        => /\ Listed' = Listed
           /\ \A i \in 1..Len(tunnels) :
                  is_active(tunnels, forwarders, i) => is_active(tunnels', forwarders', i)

\* C19: the window's Open session leaves the session as it was when
\* load_tunnels raises: same tunnels in the list, in the same order, and
\* every tunnel that was active is still active.
C19_FailedLoadLeavesSession == [][C19_FailedLoadStep]_vars

\* C20: in the window, every tunnel that reports active is in the window's
\* list of tunnels; one that left the list is not active.
C20_NoOrphanedLiveTunnel ==
    \A i \in 1..Len(tunnels) :
        is_active(tunnels, forwarders, i) => \E k \in 1..Len(Listed) : Listed[k] = i

\* C21: after every handler of the window the tree and the list are aligned:
\* as many rows as entries, and row k shows the tunnel of entry k and carries
\* its check box.
C21_TreeAlignedWithList ==
    /\ Len(tree_rows) = Len(_tunnels_items)
    /\ \A k \in 1..Len(tree_rows) :
           k <= Len(_tunnels_items)
               => /\ tree_rows[k].values = RowValues(tunnels[_tunnels_items[k].tunnel])
                  /\ tree_rows[k].check_box = _tunnels_items[k].check_box

\* The check box of tunnel i, where the tree still has it, shows what
\* is_active() of the tunnel tells.
BoxShowsActive(rows, ts, fw, i, check_box) ==
    \A k \in 1..Len(rows) :
        rows[k].check_box = check_box => (rows[k].checked <=> is_active(ts, fw, i))

\* A toggle, an edit, a start-all or a stop-all has completed: the check box
\* of every tunnel it started or stopped shows the tunnel's is_active().
C22_CheckBoxStep ==
    /\ (last'.op \in {"toggle", "edit"} /\ last'.self # 0)
           => BoxShowsActive(tree_rows', tunnels', forwarders', last'.self, last'.self)
    /\ last'.op \in {"start_all", "stop_all"}
           => \A j \in 1..Len(last'.calls) :
                  LET it == _tunnels_items'[last'.calls[j]]
                  IN  BoxShowsActive(tree_rows', tunnels', forwarders', it.tunnel, it.check_box)

\* C22: after a toggle, a start-all, a stop-all or an edit, whatever the
\* connect or the teardown answered, the check box of each tunnel the
\* handler acted on is checked exactly if the tunnel's is_active() is true.
C22_CheckBoxFollowsActive == [][C22_CheckBoxStep]_vars

\* A start-all, a stop-all or an exit has completed: start() or stop() was
\* called on every entry of the list, in the list's order.
C23_LoopStep ==
    last'.op \in {"start_all", "stop_all", "exit"}
        => last'.calls = [k \in 1..Len(_tunnels_items) |-> k]

\* C23: start-all and stop-all attempt every tunnel of the list in order,
\* whatever failed on an earlier one, and exit quits only after stop() was
\* attempted on every tunnel of the list.
C23_EveryTunnelAttempted == [][C23_LoopStep]_vars

=============================================================================
